---- MODULE Spec2Model ----
(***************************************************************************)
(* A model of the jtfo.logging helper library                              *)
(* (source/jtfo/logging/logging.py):                                       *)
(*   - the text formatters CustomFormatter and CustomColourFormatter,      *)
(*   - the embed formatter CustomEmbedFormatter,                           *)
(*   - the AsyncQueueHandler hand-off queue,                               *)
(*   - the level registrar add_logging_level,                              *)
(*   - the colour capability query stream_supports_colour (also the one of *)
(*     source/jtfo_logging/logging.py) and is_docker,                      *)
(*   - setup_logging, its handlers and its exception hook.                 *)
(* Each part has its own specification (FormatSpec, EmbedSpec, QueueSpec,  *)
(* QueueLiveSpec, LevelSpec, SupportSpec, SetupSpec, ConcSpec); the        *)
(* variables of the other parts stay at their initial values.              *)
(***************************************************************************)
EXTENDS Integers, Sequences, FiniteSets, TLC

VARIABLES
    \* ---- text formatters ----
    record,      \* the LogRecord being formatted (its mutable fields included)
    plain,       \* what CustomFormatter.format last did with it
    colour,      \* what CustomColourFormatter.format last did with it
    \* ---- embed formatter ----
    erecord,     \* the LogRecord handed to CustomEmbedFormatter.format
    embed,       \* the Embed it returned
    \* ---- AsyncQueueHandler ----
    loopState,   \* handler._loop: "running", "stopped" or "closed"
    ready,       \* the loop's FIFO of scheduled callbacks
    queue,       \* handler._queue: the items of the asyncio.Queue
    getters,     \* handler._queue._getters: the suspended consumers, in order
    ppc,         \* each producer thread's position inside emit
    cpc,         \* each consumer's position inside async_get
    emitted,     \* history: the items handed over by emit, in scheduling order
    returned,    \* history: the items returned by async_get, in return order
    emitlog,     \* history: the outcome of every emit call
    nextItem,    \* the next record to be logged
    \* ---- level registrar ----
    levelToName, \* logging._levelToName
    nameToLevel, \* logging._nameToLevel
    moduleAttr,  \* attributes of the logging module set by add_logging_level
    loggerAttr,  \* methods injected into the Logger class
    adapterAttr, \* methods injected into LoggerAdapter
    threshold,   \* the effective level of the logger the calls go through
    lastAdded,   \* history: the arguments of the last add_logging_level call
    lastCall,    \* history: the last call of an injected method and its outcome
    \* ---- colour capability ----
    senv,        \* the stream, the environment and the filesystem markers
    supports,    \* what stream_supports_colour(stream) last did
    docker,      \* what is_docker() last did
    jl_supports, \* what jtfo_logging's stream_supports_colour(stream) last did
    \* ---- setup_logging ----
    setup,       \* "none", or how the call of setup_logging ended
    handlers,    \* the handlers of the root logger, in the order added
    excepthook,  \* sys.excepthook: "default" or the hook of setup_logging
    hpos,        \* callHandlers: the handler the record in flight is at, or 0
    logged,      \* history: the record in flight as it was logged
    written,     \* history: what each sink was given for the record in flight
    lastHook,    \* history: the call of the hook in progress and the records
                 \* it made
    \* ---- concurrent calls of add_logging_level ----
    lock,        \* logging._lock, a reentrant lock: its owner and its count
    tpc,         \* each thread's position inside add_logging_level
    targs,       \* the arguments of each thread's call
    tsteps       \* history: how many of its mutations each call has made

fmtVars   == <<record, plain, colour>>
embedVars == <<erecord, embed>>
queueVars == <<loopState, ready, queue, getters, ppc, cpc, emitted, returned,
               emitlog, nextItem>>
levelVars == <<levelToName, nameToLevel, moduleAttr, loggerAttr, adapterAttr,
               threshold, lastAdded, lastCall>>
supportVars == <<senv, supports, docker, jl_supports>>
setupVars ==
    <<setup, handlers, excepthook, hpos, logged, written, lastHook>>
concVars  == <<lock, tpc, targs, tsteps>>
restVars  == <<supportVars, setupVars, concVars>>
vars      == <<fmtVars, embedVars, queueVars, levelVars, restVars>>

(***************************************************************************)
(* Text.  A string is a sequence of tokens: the characters "a", " " and    *)
(* the line feed, the ANSI escape sequences (one token each) and the       *)
(* rendered fields of the header (one token each).                         *)
(***************************************************************************)
LF == "\n"
SP == " "
Chars == {"a", SP, LF}

\* Python's None, and an attribute the record does not have.
None == <<"<None>">>
Absent == <<"<absent>">>

\* Bounds of the records drawn for the text formatters.
MaxText == 3

Strs(n) == UNION {[1..k -> Chars] : k \in 0..n}

\* The severities of the colour table (NOTICE as setup_logging registers it).
NOTSET == 0
DEBUG == 10
INFO == 20
NOTICE == 25
WARNING == 30
ERROR == 40
CRITICAL == 50

\* str.splitlines(True), for text whose only line boundary is the line feed:
\* the lines with their line ends kept; no line after a final line feed.
RECURSIVE splitlines_from(_, _)
splitlines_from(s, cur) ==
    IF s = <<>> THEN (IF cur = <<>> THEN <<>> ELSE <<cur>>)
    ELSE IF Head(s) = LF
         THEN <<Append(cur, LF)>> \o splitlines_from(Tail(s), <<>>)
         ELSE splitlines_from(Tail(s), Append(cur, Head(s)))

splitlines(s) == splitlines_from(s, <<>>)

\* sep.join(parts)
RECURSIVE join(_, _)
join(sep, parts) ==
    IF parts = <<>> THEN <<>>
    ELSE IF Len(parts) = 1 THEN parts[1]
    ELSE parts[1] \o sep \o join(sep, Tail(parts))

\* Python truthiness of an optional string: None and '' are false.
truthy(s) == s # None /\ s # <<>>

(***************************************************************************)
(* The records drawn for the text formatters.  exc_info stands for the     *)
(* text traceback.print_exception prints for it (never empty, ending with  *)
(* a line feed); raw_msg is a string or not an attribute of the record.    *)
(* msg is a string or an object that is none (an int, an exception, a      *)
(* list: the logging calls take any object); the record has no arguments,  *)
(* so getMessage() is str(msg).                                            *)
(***************************************************************************)
Levels == {NOTSET, DEBUG, INFO, NOTICE, WARNING, ERROR, CRITICAL, 15, 60}

\* A msg that is no string and has no += for a string (an int, an exception).
Obj == <<"<object>">>

\* A msg that is a list: the marker, then its items.  EmptyList is [].
EmptyList == <<"<list>">>
IsList(msg) == msg # <<>> /\ msg[1] = "<list>"

\* repr() of a one-character item: the line feed and the characters of an
\* escape sequence are written escaped.
repr_item(t) ==
    IF t \in {"a", SP} THEN t
    ELSE IF t = LF THEN "\\n"
    ELSE "<escaped>"

\* str() of a list: the repr of its items between brackets.
list_str(msg) ==
    <<"[">> \o [i \in 1..(Len(msg) - 1) |-> repr_item(msg[i + 1])] \o <<"]">>

\* What str() makes of a msg.
str(msg) ==
    IF msg = Obj THEN <<"a">>
    ELSE IF IsList(msg) THEN list_str(msg)
    ELSE msg

\* The longest list that is still formatted.
MaxListLen == 8

Msgs == {<<>>, <<"a">>, <<LF>>, Obj, EmptyList}
Printed(n) == {t \o <<LF>> : t \in {u \in Strs(n) : u # <<>> /\ u[1] # LF}}

TextLen(s) == IF s = None \/ s = Absent THEN 0 ELSE Len(s)

FormatRecords ==
    {[levelno |-> l, msg |-> m, exc_info |-> e, exc_text |-> None,
      raw_msg |-> r] :
        l \in Levels, m \in Msgs,
        <<e, r>> \in {p \in (Printed(MaxText) \cup {None})
                                \X (Strs(MaxText) \cup {Absent}) :
                        TextLen(p[1]) + TextLen(p[2]) <= MaxText + 1}}

\* What a formatter did: done when it returned ret, raised when it raised.
NoResult ==
    [done |-> FALSE, ret |-> <<>>, exc_text |-> None, raw_text |-> None,
     raised |-> ""]

(***************************************************************************)
(* logging.Formatter, as the two formatters use it.                        *)
(***************************************************************************)
\* Formatter.formatException: the printed trace without its last line feed.
formatException(exc_info) ==
    IF exc_info[Len(exc_info)] = LF THEN SubSeq(exc_info, 1, Len(exc_info) - 1)
    ELSE exc_info

\* Formatter.formatMessage: the %-style template with the fields filled in.
RECURSIVE formatMessage(_, _)
formatMessage(fmt, message) ==
    IF fmt = <<>> THEN <<>>
    ELSE (CASE Head(fmt) = "%(message)s" -> message
            [] Head(fmt) = "%(asctime)s" -> <<"<asctime>">>
            [] Head(fmt) = "%(levelname)-8s" -> <<"<levelname>">>
            [] Head(fmt) = "%(name)s" -> <<"<name>">>
            [] OTHER -> <<Head(fmt)>>)
         \o formatMessage(Tail(fmt), message)

\* Formatter.format(record): the header with the message, then the cached or
\* freshly rendered exception text on a line of its own.
Formatter_format(fmt, r) ==
    LET s == formatMessage(fmt, str(r.msg))
        exc_text == IF r.exc_info # None /\ ~truthy(r.exc_text)
                    THEN formatException(r.exc_info) ELSE r.exc_text
        sep == IF s[Len(s)] # LF THEN <<LF>> ELSE <<>>
    IN  [ret |-> IF truthy(exc_text) THEN s \o sep \o exc_text ELSE s,
         record |-> [r EXCEPT !.exc_text = exc_text]]

\* '  ' + '  '.join(text.splitlines(True))
Indent(text) == <<SP, SP>> \o join(<<SP, SP>>, splitlines(text))

(***************************************************************************)
(* CustomFormatter                                                         *)
(***************************************************************************)
PlainTemplate ==
    <<"%(asctime)s", SP, "[", "%(levelname)-8s", "]", SP, "%(name)s", ":", SP,
      "%(message)s">>

\* A variant that leaves out the empty line after the stack trace.
PlainExcText_NoEmptyLine(r) ==
    IF r.exc_info # None
    THEN Indent(formatException(r.exc_info))
    ELSE None

\* exc_text of CustomFormatter.format
PlainExcText(r) ==
    IF r.exc_info # None
    THEN Indent(formatException(r.exc_info)) \o <<LF>>
    ELSE None

\* A variant that indents only the lines after the first.
PlainRawText_FirstLineBare(r) ==
    IF r.raw_msg # Absent
    THEN <<LF>> \o join(<<SP, SP>>, splitlines(r.raw_msg)) \o <<LF>>
    ELSE None

\* raw_text of CustomFormatter.format
PlainRawText(r) ==
    IF r.raw_msg # Absent
    THEN <<LF>> \o Indent(r.raw_msg) \o <<LF>>
    ELSE None

\* record.msg += raw_text raises TypeError for a msg that is no string.
AppendRaises(msg, raw_text) == truthy(raw_text) /\ msg = Obj

\* The try block: the record as modified for the base formatter.
Modified(r, exc_text, raw_text) ==
    [r EXCEPT !.exc_text = IF truthy(exc_text) THEN exc_text ELSE @,
              !.msg = IF truthy(raw_text) THEN @ \o raw_text ELSE @]

\* The object the name original_msg is bound to, as it is in the finally
\* block: record.msg += raw_text binds record.msg to a new str, but extends
\* a list in place (list.__iadd__), and original_msg is that same list.
Referent(original_msg, modified_msg) ==
    IF IsList(original_msg) THEN modified_msg ELSE original_msg

\* A variant of the finally block that leaves the message as modified.
Restored_KeepsMsg(r, original_exc_text, original_msg) ==
    [r EXCEPT !.exc_text = original_exc_text]

\* The finally block: the original record state put back.
Restored(r, original_exc_text, original_msg) ==
    [r EXCEPT !.exc_text = original_exc_text, !.msg = original_msg]

CustomFormatter_format(r) ==
    LET exc_text == PlainExcText(r)
        raw_text == PlainRawText(r)
        f == Formatter_format(PlainTemplate, Modified(r, exc_text, raw_text))
    IN  IF AppendRaises(r.msg, raw_text)
        THEN [ret |-> <<>>, exc_text |-> exc_text, raw_text |-> raw_text,
              raised |-> "TypeError",
              record |-> Restored(r, r.exc_text, r.msg)]
        ELSE [ret |-> f.ret, exc_text |-> exc_text, raw_text |-> raw_text,
              raised |-> "",
              record |-> Restored(f.record, r.exc_text,
                                  Referent(r.msg, f.record.msg))]

(***************************************************************************)
(* CustomColourFormatter                                                   *)
(***************************************************************************)
c_accent == "\\x1b[30;2m"
c_name == "\\x1b[34m"
c_reset == "\\x1b[0m"
c_red == "\\x1b[31m"
c_cyan == "\\x1b[36m"

c_levels ==
    <<<<NOTSET, "\\x1b[30;1m">>,
      <<DEBUG, "\\x1b[35;1m">>,
      <<INFO, "\\x1b[37;1m">>,
      <<NOTICE, "\\x1b[32;1m">>,
      <<WARNING, "\\x1b[33;1m">>,
      <<ERROR, "\\x1b[31;1m">>,
      <<CRITICAL, "\\x1b[41;1m">>>>

ColourTemplate(c_level) ==
    <<c_accent, "%(asctime)s", SP, "[", c_reset, c_level, "%(levelname)-8s",
      c_reset, c_accent, "]", SP, c_reset, c_name, "%(name)s", c_reset,
      c_accent, ":", SP, c_reset, "%(message)s">>

\* self._formatters: the last entry of c_levels for a level wins.
formatters ==
    [l \in {c_levels[i][1] : i \in DOMAIN c_levels} |->
        LET i == CHOOSE j \in DOMAIN c_levels :
                    /\ c_levels[j][1] = l
                    /\ \A k \in DOMAIN c_levels : c_levels[k][1] = l => k <= j
        IN  ColourTemplate(c_levels[i][2])]

\* A variant whose fallback is the first entry of the table.
SelectFormatter_FallbackFirst(levelno) ==
    IF levelno \in DOMAIN formatters THEN formatters[levelno]
    ELSE formatters[NOTSET]

\* self._formatters.get(record.levelno, self._formatters[logging.DEBUG])
SelectFormatter(levelno) ==
    IF levelno \in DOMAIN formatters THEN formatters[levelno]
    ELSE formatters[DEBUG]

\* exc_text of CustomColourFormatter.format
ColourExcText(r) ==
    IF r.exc_info # None
    THEN <<c_red>> \o Indent(formatException(r.exc_info)) \o <<LF>>
         \o <<c_reset>>
    ELSE None

\* raw_text of CustomColourFormatter.format
ColourRawText(r) ==
    IF r.raw_msg # Absent
    THEN <<c_cyan>> \o <<LF>> \o Indent(r.raw_msg) \o <<LF>> \o <<c_reset>>
    ELSE None

CustomColourFormatter_format(r) ==
    LET formatter == SelectFormatter(r.levelno)
        exc_text == ColourExcText(r)
        raw_text == ColourRawText(r)
        f == Formatter_format(formatter, Modified(r, exc_text, raw_text))
    IN  IF AppendRaises(r.msg, raw_text)
        THEN [ret |-> <<>>, exc_text |-> exc_text, raw_text |-> raw_text,
              raised |-> "TypeError",
              record |-> Restored(r, r.exc_text, r.msg)]
        ELSE [ret |-> f.ret, exc_text |-> exc_text, raw_text |-> raw_text,
              raised |-> "",
              record |-> Restored(f.record, r.exc_text,
                                  Referent(r.msg, f.record.msg))]

(***************************************************************************)
(* CustomEmbedFormatter.  The description of an embed runs to thousands of *)
(* characters, so its text is kept run-length encoded: a sequence of runs  *)
(* [c, n], n > 0 characters of class c, adjacent runs of different         *)
(* classes.  The classes are the backtick, the line feed, the space, "(",  *)
(* ")", ".", ">", the digits "d", the letters of the literals "profile"    *)
(* ("p") and "truncated" ("t"), any other character ("x"), and the two     *)
(* lookalikes the formatter substitutes.                                   *)
(***************************************************************************)
BT == "<backtick>"
FWPAREN == "\\uFF08"
ONEDOT == "\\u2024"

Run(c, n) == IF n <= 0 THEN <<>> ELSE <<[c |-> c, n |-> n]>>

\* a + b
RCat(a, b) ==
    IF a = <<>> THEN b
    ELSE IF b = <<>> THEN a
    ELSE IF a[Len(a)].c = b[1].c
         THEN SubSeq(a, 1, Len(a) - 1)
              \o <<[c |-> b[1].c, n |-> a[Len(a)].n + b[1].n]>> \o Tail(b)
         ELSE a \o b

\* len(s)
RECURSIVE RLen(_)
RLen(s) == IF s = <<>> THEN 0 ELSE Head(s).n + RLen(Tail(s))

\* s[:k], for k >= 0
RECURSIVE RTake(_, _)
RTake(s, k) ==
    IF k <= 0 \/ s = <<>> THEN <<>>
    ELSE IF Head(s).n <= k THEN RCat(<<Head(s)>>, RTake(Tail(s), k - Head(s).n))
    ELSE Run(Head(s).c, k)

\* s[k:], for k >= 0
RECURSIVE RDrop(_, _)
RDrop(s, k) ==
    IF s = <<>> THEN <<>>
    ELSE IF k <= 0 THEN s
    ELSE IF Head(s).n <= k THEN RDrop(Tail(s), k - Head(s).n)
    ELSE RCat(Run(Head(s).c, Head(s).n - k), Tail(s))

ENone == <<[c |-> "<None>", n |-> 0]>>
EAbsent == <<[c |-> "<absent>", n |-> 0]>>

\* The literals of CustomEmbedFormatter.format.
CodeOpen == RCat(Run(BT, 3), RCat(Run("p", 7), Run(LF, 1)))
CodeClose == Run(BT, 3)
QuotePrefix == RCat(Run(LF, 1), RCat(Run(">", 3), Run(SP, 1)))
truncated_suffix ==
    RCat(Run(".", 3), RCat(Run(LF, 1), RCat(Run("(", 1), RCat(Run("t", 9),
    RCat(Run(")", 1), Run(BT, 3))))))

\* The length limit of an embed description.
DescLimit == 4096

\* Formatter.formatException on the printed trace: less its last line feed.
EformatException(exc_info) ==
    LET last == exc_info[Len(exc_info)]
    IN  IF last.c = LF
        THEN RCat(SubSeq(exc_info, 1, Len(exc_info) - 1), Run(LF, last.n - 1))
        ELSE exc_info

\* s.replace(' (', FWPAREN)
RECURSIVE ReplaceSpaceParen(_)
ReplaceSpaceParen(s) ==
    IF Len(s) < 2 THEN s
    ELSE IF s[1].c = SP /\ s[2].c = "("
         THEN RCat(Run(SP, s[1].n - 1),
              RCat(Run(FWPAREN, 1),
                   ReplaceSpaceParen(RCat(Run("(", s[2].n - 1),
                                          SubSeq(s, 3, Len(s))))))
         ELSE RCat(<<s[1]>>, ReplaceSpaceParen(Tail(s)))

\* s.replace('(', FWPAREN)
RECURSIVE ReplaceParen(_)
ReplaceParen(s) ==
    IF s = <<>> THEN <<>>
    ELSE RCat(Run(IF Head(s).c = "(" THEN FWPAREN ELSE Head(s).c, Head(s).n),
              ReplaceParen(Tail(s)))

\* sub(r'\.(?=\D)', ONEDOT, s): every '.' that a character other than a digit
\* follows; the last '.' of a run stays when a digit or nothing follows it.
RECURSIVE ReplaceDot(_)
ReplaceDot(s) ==
    IF s = <<>> THEN <<>>
    ELSE IF Head(s).c # "." THEN RCat(<<Head(s)>>, ReplaceDot(Tail(s)))
    ELSE IF Len(s) >= 2 /\ s[2].c # "d"
         THEN RCat(Run(ONEDOT, Head(s).n), ReplaceDot(Tail(s)))
         ELSE RCat(Run(ONEDOT, Head(s).n - 1),
                   RCat(Run(".", 1), ReplaceDot(Tail(s))))

\* A variant that appends the raw payload only when it is not empty.
EmbedDescription_RawIfTruthy(r) ==
    LET message == r.msg
        d1 == IF RLen(message) > 0
              THEN RCat(CodeOpen, RCat(message, CodeClose)) ELSE <<>>
        d2 == IF r.exc_info # ENone
              THEN RCat(d1, RCat(CodeOpen,
                        RCat(EformatException(r.exc_info), CodeClose)))
              ELSE d1
        d3 == IF RLen(d2) > 0
              THEN ReplaceDot(ReplaceParen(ReplaceSpaceParen(d2))) ELSE d2
    IN  IF r.raw_msg # EAbsent /\ RLen(r.raw_msg) > 0
        THEN RCat(d3, RCat(QuotePrefix, r.raw_msg))
        ELSE d3

\* embed_description before the length check.
EmbedDescription(r) ==
    LET message == r.msg
        d1 == IF RLen(message) > 0
              THEN RCat(CodeOpen, RCat(message, CodeClose)) ELSE <<>>
        d2 == IF r.exc_info # ENone
              THEN RCat(d1, RCat(CodeOpen,
                        RCat(EformatException(r.exc_info), CodeClose)))
              ELSE d1
        d3 == IF RLen(d2) > 0
              THEN ReplaceDot(ReplaceParen(ReplaceSpaceParen(d2))) ELSE d2
    IN  IF r.raw_msg # EAbsent THEN RCat(d3, RCat(QuotePrefix, r.raw_msg))
        ELSE d3

\* A variant that cuts at the limit without room for the suffix.
Truncate_NoRoom(d) ==
    IF RLen(d) > DescLimit
    THEN RCat(RTake(d, DescLimit), truncated_suffix)
    ELSE d

\* The length check and the cut.
Truncate(d) ==
    IF RLen(d) > DescLimit
    THEN RCat(RTake(d, DescLimit - RLen(truncated_suffix)), truncated_suffix)
    ELSE d

CustomEmbedFormatter_format(r) ==
    [done |-> TRUE, description |-> Truncate(EmbedDescription(r))]

(***************************************************************************)
(* The records drawn for the embed formatter: a message of a few special   *)
(* characters and then m others, a trace of e characters, a raw_msg of r   *)
(* characters.  At most one of the three is long, of a length within Slack *)
(* below the limit up to just above it, so that the cut falls at every     *)
(* place of the description.                                               *)
(***************************************************************************)
Slack == 60

EmbedHeads ==
    {<<>>,
     RCat(Run(SP, 1), Run("(", 1)),
     Run(".", 1),
     RCat(Run(".", 1), Run("d", 1))}

ShortLens == {1, 20}
LongLens == (DescLimit - Slack)..(DescLimit + 2)

EmbedRecords ==
    {[msg |-> RCat(h, Run("x", t[1])),
      exc_info |-> IF t[2] < 0 THEN ENone ELSE RCat(Run("x", t[2]), Run(LF, 1)),
      raw_msg |-> IF t[3] < 0 THEN EAbsent ELSE Run("x", t[3])] :
        h \in EmbedHeads,
        t \in {u \in ({0} \cup ShortLens \cup LongLens)
                     \X ({-1} \cup ShortLens \cup LongLens)
                     \X ({-1, 0} \cup ShortLens \cup LongLens) :
                Cardinality({i \in 1..3 : u[i] \in LongLens}) <= 1}}

(***************************************************************************)
(* is_docker and stream_supports_colour.  The query reads the stream, the  *)
(* environment variables PYCHARM_HOSTED, TERM_PROGRAM, ANSICON and         *)
(* WT_SESSION, sys.platform, and the files /.dockerenv and                 *)
(* /proc/self/cgroup.  A call returns a value or raises.                   *)
(***************************************************************************)
\* The outcome of a call: the value returned, or the exception raised.
Returns(b) == [done |-> TRUE, value |-> b, raised |-> ""]
Raises(x) == [done |-> TRUE, value |-> FALSE, raised |-> x]
NoAnswer == [done |-> FALSE, value |-> FALSE, raised |-> ""]

\* The streams: an object without isatty, a terminal, and a stream that is
\* no terminal (isatty() returns a boolean).
Streams == {"no_isatty", "tty", "not_tty"}

\* /proc/self/cgroup: no such path, a path that is no regular file, a file
\* with a line containing 'docker', a file without one, or a file that
\* open() may not read.
Cgroups == {"absent", "not_file", "docker", "plain", "unreadable"}

Environments ==
    [stream : Streams,
     PYCHARM_HOSTED : BOOLEAN,
     TERM_PROGRAM : {"", "vscode", "xterm"},
     platform : {"linux", "win32"},
     dockerenv : BOOLEAN,
     cgroup : Cgroups,
     ANSICON : BOOLEAN,
     WT_SESSION : BOOLEAN]

\* os.path.isfile(path) and any('docker' in line for line in open(path))
cgroup_mentions_docker(e) ==
    IF e.cgroup \in {"absent", "not_file"} THEN Returns(FALSE)
    ELSE IF e.cgroup = "unreadable" THEN Raises("PermissionError")
    ELSE Returns(e.cgroup = "docker")

is_docker(e) ==
    IF e.dockerenv THEN Returns(TRUE) ELSE cgroup_mentions_docker(e)

\* hasattr(stream, 'isatty') and stream.isatty()
is_a_tty(e) == e.stream # "no_isatty" /\ e.stream = "tty"

\* 'PYCHARM_HOSTED' in os.environ or os.environ.get('TERM_PROGRAM') == 'vscode'
ide_marker(e) == e.PYCHARM_HOSTED \/ e.TERM_PROGRAM = "vscode"

\* A variant that knows ANSICON only.
terminal_marker_AnsiconOnly(e) == e.ANSICON

\* 'ANSICON' in os.environ or 'WT_SESSION' in os.environ
terminal_marker(e) == e.ANSICON \/ e.WT_SESSION

stream_supports_colour(e) ==
    IF ide_marker(e) THEN Returns(is_a_tty(e))
    ELSE IF e.platform # "win32"
         THEN (IF is_a_tty(e) THEN Returns(TRUE) ELSE is_docker(e))
    ELSE Returns(is_a_tty(e) /\ terminal_marker(e))

\* The same query in the module jtfo_logging: the IDE marker answers true
\* before the stream is looked at, and Docker is not asked about.
jtfo_logging_stream_supports_colour(e) ==
    IF ide_marker(e) THEN Returns(TRUE)
    ELSE IF e.platform # "win32" THEN Returns(is_a_tty(e))
    ELSE Returns(is_a_tty(e) /\ terminal_marker(e))

SupportParked ==
    /\ senv = [stream |-> "not_tty", PYCHARM_HOSTED |-> FALSE,
               TERM_PROGRAM |-> "", platform |-> "linux", dockerenv |-> FALSE,
               cgroup |-> "absent", ANSICON |-> FALSE, WT_SESSION |-> FALSE]
    /\ supports = NoAnswer
    /\ docker = NoAnswer
    /\ jl_supports = NoAnswer

\* Nothing written to a sink.
NoText == <<"<nothing>">>

\* An unhandled exception: its type and what print_exception prints for it.
NoExc == [type |-> "", trace |-> None]
NoHook == [called |-> FALSE, exc |-> NoExc, made |-> <<>>]

NoRecord ==
    [levelno |-> INFO, msg |-> <<>>, exc_info |-> None, exc_text |-> None,
     raw_msg |-> Absent]
NoneWritten == [stream |-> NoText, file |-> NoText]

SetupParked ==
    /\ setup = "none"
    /\ handlers = <<>>
    /\ excepthook = "default"
    /\ hpos = 0
    /\ logged = NoRecord
    /\ written = NoneWritten
    /\ lastHook = NoHook

\* The threads that call add_logging_level.
Threads == {"t1", "t2"}

ConcParked ==
    /\ lock = [owner |-> "", count |-> 0]
    /\ tpc = [t \in Threads |-> "idle"]
    /\ targs = [t \in Threads |-> <<>>]
    /\ tsteps = [t \in Threads |-> 0]

RestParked == SupportParked /\ SetupParked /\ ConcParked

(***************************************************************************)
(* The state of each part before it is used; a specification of one part   *)
(* keeps the other parts here.                                             *)
(***************************************************************************)
Producers == {"p1", "p2"}
Consumers == {"c1", "c2"}

\* The records logged through the handler are numbered from 1 to MaxItems.
MaxItems == 3
NoItem == 0

FormatParked ==
    /\ record = NoRecord
    /\ plain = NoResult
    /\ colour = NoResult

EmbedParked ==
    /\ erecord = [msg |-> <<>>, exc_info |-> ENone, raw_msg |-> EAbsent]
    /\ embed = [done |-> FALSE, description |-> <<>>]

QueueInit ==
    /\ loopState = "running"
    /\ ready = <<>>
    /\ queue = <<>>
    /\ getters = <<>>
    /\ ppc = [p \in Producers |-> NoItem]
    /\ cpc = [c \in Consumers |-> "idle"]
    /\ emitted = <<>>
    /\ returned = <<>>
    /\ emitlog = <<>>
    /\ nextItem = 1

\* An attribute of the logging module or of a class: a level constant, or a
\* logging method that logs at a level.
Const(value) == [kind |-> "const", level |-> value]
Method(value) == [kind |-> "method", level |-> value]

NoCall ==
    [path |-> "none", method |-> "", threshold |-> 0, outcome |-> "none",
     level |-> 0]

BuiltinMethods ==
    ("debug" :> Method(DEBUG)) @@ ("info" :> Method(INFO))
    @@ ("warning" :> Method(WARNING)) @@ ("error" :> Method(ERROR))
    @@ ("critical" :> Method(CRITICAL))

BuiltinConstants ==
    ("NOTSET" :> Const(NOTSET)) @@ ("DEBUG" :> Const(DEBUG))
    @@ ("INFO" :> Const(INFO)) @@ ("WARNING" :> Const(WARNING))
    @@ ("ERROR" :> Const(ERROR)) @@ ("CRITICAL" :> Const(CRITICAL))

\* The registry of the logging module before add_logging_level is called.
BuiltinRegistry ==
    [levelToName |-> (NOTSET :> "NOTSET") @@ (DEBUG :> "DEBUG")
                      @@ (INFO :> "INFO") @@ (WARNING :> "WARNING")
                      @@ (ERROR :> "ERROR") @@ (CRITICAL :> "CRITICAL"),
     nameToLevel |-> ("NOTSET" :> NOTSET) @@ ("DEBUG" :> DEBUG)
                      @@ ("INFO" :> INFO) @@ ("WARNING" :> WARNING)
                      @@ ("ERROR" :> ERROR) @@ ("CRITICAL" :> CRITICAL),
     moduleAttr |-> BuiltinMethods @@ BuiltinConstants,
     loggerAttr |-> BuiltinMethods,
     adapterAttr |-> BuiltinMethods]

LevelInit ==
    /\ levelToName = BuiltinRegistry.levelToName
    /\ nameToLevel = BuiltinRegistry.nameToLevel
    /\ moduleAttr = BuiltinRegistry.moduleAttr
    /\ loggerAttr = BuiltinRegistry.loggerAttr
    /\ adapterAttr = BuiltinRegistry.adapterAttr
    /\ threshold = WARNING
    /\ lastAdded = <<>>
    /\ lastCall = NoCall

(***************************************************************************)
(* FormatSpec: a record is formatted by the two text formatters, any       *)
(* number of times and in any order (the handlers of one logger format     *)
(* the same record one after the other).                                   *)
(***************************************************************************)
FormatInit ==
    /\ record \in FormatRecords
    /\ plain = NoResult
    /\ colour = NoResult
    /\ EmbedParked /\ QueueInit /\ LevelInit /\ RestParked

FormatPlain ==
    LET res == CustomFormatter_format(record)
    IN  /\ IsList(record.msg) => Len(record.msg) <= MaxListLen
        /\ plain' = [done |-> res.raised = "", ret |-> res.ret,
                      exc_text |-> res.exc_text, raw_text |-> res.raw_text,
                      raised |-> res.raised]
        /\ record' = res.record
        /\ UNCHANGED <<colour, embedVars, queueVars, levelVars, restVars>>

FormatColour ==
    LET res == CustomColourFormatter_format(record)
    IN  /\ IsList(record.msg) => Len(record.msg) <= MaxListLen
        /\ colour' = [done |-> res.raised = "", ret |-> res.ret,
                       exc_text |-> res.exc_text, raw_text |-> res.raw_text,
                       raised |-> res.raised]
        /\ record' = res.record
        /\ UNCHANGED <<plain, embedVars, queueVars, levelVars, restVars>>

FormatNext == FormatPlain \/ FormatColour

FormatSpec == FormatInit /\ [][FormatNext]_vars

(***************************************************************************)
(* Properties of the text formatters                                       *)
(***************************************************************************)
\* The escape sequences the colour formatter writes.
AnsiEscapes ==
    {"\\x1b[30;2m", "\\x1b[34m", "\\x1b[0m", "\\x1b[31m", "\\x1b[36m",
     "\\x1b[30;1m", "\\x1b[35;1m", "\\x1b[37;1m", "\\x1b[32;1m",
     "\\x1b[33;1m", "\\x1b[31;1m", "\\x1b[41;1m"}

IsAnsi(t) == t \in AnsiEscapes
StripAnsi(s) == SelectSeq(s, LAMBDA t : ~IsAnsi(t))

IsPrefix(p, s) == Len(p) <= Len(s) /\ SubSeq(s, 1, Len(p)) = p
IsSuffix(p, s) ==
    Len(p) <= Len(s) /\ SubSeq(s, Len(s) - Len(p) + 1, Len(s)) = p

\* The header of a rendered record, up to the message.
Header == <<"<asctime>", SP, "[", "<levelname>", "]", SP, "<name>", ":", SP>>

\* The documented colour of each severity.
DocumentedSGR ==
    (0 :> "\\x1b[30;1m") @@ (10 :> "\\x1b[35;1m") @@ (20 :> "\\x1b[37;1m")
    @@ (25 :> "\\x1b[32;1m") @@ (30 :> "\\x1b[33;1m") @@ (40 :> "\\x1b[31;1m")
    @@ (50 :> "\\x1b[41;1m")

\* The escape sequence written right before the level name.
LevelColour(out) ==
    LET i == CHOOSE j \in 1..Len(out) : out[j] = "<levelname>" IN out[i - 1]

\* s with two spaces put before every line of it: at its first character and
\* after every line feed that a character follows.
RECURSIVE PrefixedFrom(_, _)
PrefixedFrom(s, i) ==
    IF i > Len(s) THEN <<>>
    ELSE (IF i = 1 \/ s[i - 1] = LF THEN <<SP, SP>> ELSE <<>>)
         \o <<s[i]>> \o PrefixedFrom(s, i + 1)

EveryLinePrefixed(s) == PrefixedFrom(s, 1)

\* The trace of a record: what is printed for exc_info, less its last line feed.
TraceOf(r) == SubSeq(r.exc_info, 1, Len(r.exc_info) - 1)

\* C2: the colour formatter renders the level name of every record in the
\* documented colour of its severity (NOTSET 30;1, DEBUG 35;1, INFO 37;1,
\* NOTICE 32;1, WARNING 33;1, ERROR 31;1, CRITICAL 41;1), and in the colour of
\* DEBUG (35;1) for every other severity.
C2_ColourOfSeverity ==
    colour.done =>
        LevelColour(colour.ret) =
            IF record.levelno \in DOMAIN DocumentedSGR
            THEN DocumentedSGR[record.levelno]
            ELSE "\\x1b[35;1m"

C2_Witness ==
    /\ colour.done
    /\ record.levelno = 60
    /\ LevelColour(colour.ret) = "\\x1b[35;1m"

\* C3: for every record, the output of the colour formatter with the ANSI
\* escape sequences removed is the output of the plain formatter.
C3_StrippedColourIsPlain ==
    (plain.done /\ colour.done) => StripAnsi(colour.ret) = plain.ret

\* C4: for every record with exception info, the exception block of the
\* plain formatter is the trace with two spaces before every line of it
\* (empty lines included), followed by one added line feed, and it is the
\* last section of the output; the block of the colour formatter is the same
\* text between its escape sequences.
C4_ExceptionBlock ==
    /\ (plain.done /\ record.exc_info # None) =>
            /\ plain.exc_text = EveryLinePrefixed(TraceOf(record)) \o <<LF>>
            /\ IsSuffix(plain.exc_text, plain.ret)
    /\ (colour.done /\ record.exc_info # None) =>
            /\ StripAnsi(colour.exc_text)
                    = EveryLinePrefixed(TraceOf(record)) \o <<LF>>
            /\ IsSuffix(colour.exc_text, colour.ret)

C4_Witness ==
    /\ plain.done
    /\ record.exc_info = <<"a", LF, LF, LF>>
    /\ plain.exc_text = <<SP, SP, "a", LF, SP, SP, LF, LF>>

\* C5 as stated: for every record whose raw_msg is a string r, the raw block
\* of the plain formatter is one line feed, then every line of r with two
\* spaces before it, then one line feed.
C5_RawBlockAsStated ==
    (plain.done /\ record.raw_msg # Absent) =>
        plain.raw_text
            = <<LF>> \o EveryLinePrefixed(record.raw_msg) \o <<LF>>

\* C5 as amended: the same for every non-empty r (also one ending in a line
\* feed); for the empty string, which has no line, the block is a line
\* feed, two spaces and a line feed.  Appended to a msg that is a string, the
\* block directly follows the message (appended to a list, its characters
\* become items of the list).
C5_RawBlockAmended ==
    (plain.done /\ record.raw_msg # Absent) =>
        /\ plain.raw_text
              = <<LF>>
                \o (IF record.raw_msg = <<>> THEN <<SP, SP>>
                    ELSE EveryLinePrefixed(record.raw_msg))
                \o <<LF>>
        /\ ~IsList(record.msg) =>
                IsPrefix(Header \o record.msg \o plain.raw_text, plain.ret)

C5_Witness ==
    /\ plain.done
    /\ record.raw_msg = <<"a", LF, "a">>
    /\ plain.raw_text = <<LF, SP, SP, "a", LF, SP, SP, "a", LF>>

\* C17: no exception escapes rendering: for every record (msg of any type,
\* with or without exception info, with or without a string raw_msg) each of
\* the two formatters returns a string and raises nothing.
C17_NoExceptionEscapes ==
    /\ plain.raised = ""
    /\ colour.raised = ""

\* C20: for a record with exception info and a raw_msg, the output of each
\* formatter is the header with the message, then the raw block directly
\* after the message, then the exception block as the last section, with
\* nothing (no blank line) between the raw block and the exception block.
C20_SectionOrder ==
    LET both == record.exc_info # None /\ record.raw_msg # Absent
    IN  /\ (plain.done /\ both) =>
                plain.ret
                    = Header \o record.msg \o plain.raw_text \o plain.exc_text
        /\ (colour.done /\ both) =>
                StripAnsi(colour.ret)
                    = Header \o record.msg \o StripAnsi(colour.raw_text)
                      \o StripAnsi(colour.exc_text)

(***************************************************************************)
(* EmbedSpec: AsyncQueueHandler.emit hands a record to the embed           *)
(* formatter.                                                              *)
(***************************************************************************)
EmbedInit ==
    /\ erecord \in EmbedRecords
    /\ embed = [done |-> FALSE, description |-> <<>>]
    /\ FormatParked /\ QueueInit /\ LevelInit /\ RestParked

EmbedFormat ==
    /\ ~embed.done
    /\ embed' = CustomEmbedFormatter_format(erecord)
    /\ UNCHANGED <<erecord, fmtVars, queueVars, levelVars, restVars>>

EmbedNext == EmbedFormat

EmbedSpec == EmbedInit /\ [][EmbedNext]_vars

(***************************************************************************)
(* Properties of the embed formatter                                       *)
(***************************************************************************)
\* The truncation marker: three dots, a line feed, (truncated), a code fence.
Marker ==
    <<[c |-> ".", n |-> 3], [c |-> LF, n |-> 1], [c |-> "(", n |-> 1],
      [c |-> "t", n |-> 9], [c |-> ")", n |-> 1], [c |-> BT, n |-> 3]>>

REndsWith(s, m) == RLen(s) >= RLen(m) /\ RDrop(s, RLen(s) - RLen(m)) = m

\* The code fences of a text: every three backticks in a row.
RECURSIVE Fences(_)
Fences(s) ==
    IF s = <<>> THEN 0
    ELSE (IF Head(s).c = BT THEN Head(s).n \div 3 ELSE 0) + Fences(Tail(s))

\* C9: a description built longer than 4096 characters is returned with
\* length exactly 4096 and ending with the truncation marker; one of at most
\* 4096 characters is returned unchanged; no description exceeds 4096.
C9_TruncatedToLimit ==
    embed.done =>
        LET built == EmbedDescription(erecord)
        IN  /\ RLen(built) > 4096 =>
                /\ RLen(embed.description) = 4096
                /\ REndsWith(embed.description, Marker)
            /\ RLen(built) <= 4096 => embed.description = built
            /\ RLen(embed.description) <= 4096

C9_Witness ==
    /\ embed.done
    /\ RLen(EmbedDescription(erecord)) = 4097
    /\ RLen(embed.description) = 4096
    /\ erecord.exc_info # ENone /\ erecord.raw_msg # EAbsent

\* C10: after truncation every code block of the description that is opened
\* is closed: the code fences of the description pair up.
C10_FencesPairUp ==
    (embed.done /\ RLen(EmbedDescription(erecord)) > 4096) =>
        Fences(embed.description) % 2 = 0

\* A text as a code block: the fence with the language, the text with the
\* lookalikes put in, the closing fence.
Lookalikes(t) == ReplaceDot(ReplaceParen(ReplaceSpaceParen(t)))
Block(t) ==
    Lookalikes(RCat(Run(BT, 3), RCat(Run("p", 7), RCat(Run(LF, 1),
               RCat(t, Run(BT, 3))))))

\* A text as a block quote.
Quote(t) == RCat(Run(LF, 1), RCat(Run(">", 3), RCat(Run(SP, 1), t)))

\* The three sections of the description of a record, each empty when its
\* part is missing.
MessageSection(r) == IF RLen(r.msg) > 0 THEN Block(r.msg) ELSE <<>>
TraceSection(r) ==
    IF r.exc_info # ENone
    THEN Block(RTake(r.exc_info, RLen(r.exc_info) - 1)) ELSE <<>>
RawSection(r) == IF r.raw_msg # EAbsent THEN Quote(r.raw_msg) ELSE <<>>

\* C18: the description is the message section, then the trace section,
\* then the raw section, each present if and only if its part is (a
\* non-empty message, exception info, a raw_msg); a record with none of the
\* three gives the empty description.  A description over the limit keeps
\* this text up to the cut.
C18_AssemblyOrder ==
    embed.done =>
        LET want == RCat(MessageSection(erecord),
                         RCat(TraceSection(erecord), RawSection(erecord)))
        IN  /\ RLen(want) <= 4096 => embed.description = want
            /\ RLen(want) > 4096 =>
                    RTake(embed.description, 4096 - RLen(Marker))
                        = RTake(want, 4096 - RLen(Marker))
            /\ (RLen(erecord.msg) = 0 /\ erecord.exc_info = ENone
                    /\ erecord.raw_msg = EAbsent) => embed.description = <<>>

\* A message with a lookalike, a trace and an empty raw_msg.
C18_Witness ==
    /\ embed.done
    /\ erecord.msg = <<[c |-> ".", n |-> 1], [c |-> "x", n |-> 1]>>
    /\ erecord.exc_info = <<[c |-> "x", n |-> 20], [c |-> LF, n |-> 1]>>
    /\ erecord.raw_msg = <<>>
    /\ embed.description
          = <<[c |-> BT, n |-> 3], [c |-> "p", n |-> 7], [c |-> LF, n |-> 1],
              [c |-> ONEDOT, n |-> 1], [c |-> "x", n |-> 1],
              [c |-> BT, n |-> 6], [c |-> "p", n |-> 7], [c |-> LF, n |-> 1],
              [c |-> "x", n |-> 20], [c |-> BT, n |-> 3], [c |-> LF, n |-> 1],
              [c |-> ">", n |-> 3], [c |-> SP, n |-> 1]>>

(***************************************************************************)
(* AsyncQueueHandler.  Producer threads call emit; the event loop runs the *)
(* callbacks scheduled on it one at a time, in the order scheduled;        *)
(* consumers are tasks of the loop that call async_get.                    *)
(*   run_coroutine_threadsafe(queue.put(msg), loop) schedules a callback   *)
(* with call_soon_threadsafe, which raises RuntimeError on a closed loop;  *)
(* the callback creates a task, whose first step is scheduled in turn and  *)
(* runs queue.put: the queue is unbounded, so put appends the item and     *)
(* wakes the first suspended getter.  queue.get suspends the caller on a   *)
(* new getter while the queue is empty and pops the first item otherwise.  *)
(***************************************************************************)
Callback(kind, item, who) == [kind |-> kind, item |-> item, who |-> who]

Outcome(item, formatted, outcome) ==
    [item |-> item, formatted |-> formatted, outcome |-> outcome]

\* A variant of emit without the check of the loop.
EmitReturnsEarly_NoCheck(ls) == FALSE

\* if self._loop.is_closed(): return
EmitReturnsEarly(ls) == ls = "closed"

\* A variant of the queue that hands out the newest item first.
NextOf_Newest(q) == q[Len(q)]

\* Queue.get_nowait: the item popped from the left of the queue, and the rest.
NextOf(q) == Head(q)
RestOf(q) == Tail(q)

\* A variant of put that wakes no getter.
WakeupNext_Never(gs) == <<>>

\* Queue._wakeup_next(self._getters): the getter woken by a put, if any.
WakeupNext(gs) == IF gs = <<>> THEN <<>> ELSE <<Head(gs)>>

\* emit is entered: the check of the loop, and the early return.
EmitBegin(p) ==
    /\ ppc[p] = NoItem
    /\ nextItem <= MaxItems
    /\ nextItem' = nextItem + 1
    /\ IF EmitReturnsEarly(loopState)
       THEN /\ emitlog' = Append(emitlog, Outcome(nextItem, FALSE, "returned"))
            /\ UNCHANGED ppc
       ELSE /\ ppc' = [ppc EXCEPT ![p] = nextItem]
            /\ UNCHANGED emitlog
    /\ UNCHANGED <<loopState, ready, queue, getters, cpc, emitted, returned>>
    /\ UNCHANGED <<fmtVars, embedVars, levelVars, restVars>>

\* The rest of emit: the record is formatted and the put is scheduled.
EmitSchedule(p) ==
    /\ ppc[p] # NoItem
    /\ ppc' = [ppc EXCEPT ![p] = NoItem]
    /\ IF loopState = "closed"
       THEN /\ emitlog' = Append(emitlog, Outcome(ppc[p], TRUE, "RuntimeError"))
            /\ UNCHANGED <<ready, emitted>>
       ELSE /\ ready' = Append(ready, Callback("callback", ppc[p], ""))
            /\ emitted' = Append(emitted, ppc[p])
            /\ emitlog' = Append(emitlog, Outcome(ppc[p], TRUE, "returned"))
    /\ UNCHANGED <<loopState, queue, getters, cpc, returned, nextItem>>
    /\ UNCHANGED <<fmtVars, embedVars, levelVars, restVars>>

\* async_get is called by a task of the running loop.
AsyncGet(c) ==
    /\ loopState = "running"
    /\ cpc[c] = "idle"
    /\ IF queue = <<>>
       THEN /\ getters' = Append(getters, c)
            /\ cpc' = [cpc EXCEPT ![c] = "waiting"]
            /\ UNCHANGED <<queue, returned>>
       ELSE /\ returned' = Append(returned, NextOf(queue))
            /\ queue' = RestOf(queue)
            /\ UNCHANGED <<getters, cpc>>
    /\ UNCHANGED <<loopState, ready, ppc, emitted, emitlog, nextItem>>
    /\ UNCHANGED <<fmtVars, embedVars, levelVars, restVars>>

\* The running loop runs the first of its scheduled callbacks.
LoopStep ==
    /\ loopState = "running"
    /\ ready # <<>>
    /\ LET h == Head(ready)
       IN  CASE h.kind = "callback" ->
                \* the task of the put coroutine is created
                /\ ready' = Append(Tail(ready), Callback("put", h.item, ""))
                /\ UNCHANGED <<queue, getters, cpc, returned>>
             [] h.kind = "put" ->
                \* await self._queue.put(msg)
                LET woken == WakeupNext(getters)
                IN  /\ queue' = Append(queue, h.item)
                    /\ IF woken = <<>>
                       THEN /\ ready' = Tail(ready)
                            /\ UNCHANGED <<getters, cpc>>
                       ELSE /\ ready' = Append(Tail(ready),
                                        Callback("wakeup", NoItem, woken[1]))
                            /\ getters' = Tail(getters)
                            /\ cpc' = [cpc EXCEPT ![woken[1]] = "woken"]
                    /\ UNCHANGED returned
             [] h.kind = "wakeup" ->
                \* the suspended queue.get goes on
                /\ ready' = Tail(ready)
                /\ IF queue = <<>>
                   THEN /\ getters' = Append(getters, h.who)
                        /\ cpc' = [cpc EXCEPT ![h.who] = "waiting"]
                        /\ UNCHANGED <<queue, returned>>
                   ELSE /\ returned' = Append(returned, NextOf(queue))
                        /\ queue' = RestOf(queue)
                        /\ cpc' = [cpc EXCEPT ![h.who] = "idle"]
                        /\ UNCHANGED getters
    /\ UNCHANGED <<loopState, ppc, emitted, emitlog, nextItem>>
    /\ UNCHANGED <<fmtVars, embedVars, levelVars, restVars>>

\* The loop is stopped, run again, or closed (which discards its callbacks).
StopLoop ==
    /\ loopState = "running"
    /\ loopState' = "stopped"
    /\ UNCHANGED <<ready, queue, getters, ppc, cpc, emitted, returned, emitlog,
                   nextItem, fmtVars, embedVars, levelVars, restVars>>

RunLoop ==
    /\ loopState = "stopped"
    /\ loopState' = "running"
    /\ UNCHANGED <<ready, queue, getters, ppc, cpc, emitted, returned, emitlog,
                   nextItem, fmtVars, embedVars, levelVars, restVars>>

CloseLoop ==
    /\ loopState = "stopped"
    /\ loopState' = "closed"
    /\ ready' = <<>>
    /\ UNCHANGED <<queue, getters, ppc, cpc, emitted, returned, emitlog,
                   nextItem, fmtVars, embedVars, levelVars, restVars>>

QueueStart ==
    QueueInit /\ FormatParked /\ EmbedParked /\ LevelInit /\ RestParked

QueueNext ==
    \/ \E p \in Producers : EmitBegin(p)
    \/ \E p \in Producers : EmitSchedule(p)
    \/ \E c \in Consumers : AsyncGet(c)
    \/ LoopStep
    \/ StopLoop
    \/ RunLoop
    \/ CloseLoop

QueueSpec == QueueStart /\ [][QueueNext]_vars

(***************************************************************************)
(* QueueLiveSpec: the set-up of register_discord_handler.  The loop stays  *)
(* open and running, the one logging_worker calls async_get again and      *)
(* again, and every thread and the loop go on running.                     *)
(***************************************************************************)
Worker == "c1"

QueueLiveNext ==
    \/ \E p \in Producers : EmitBegin(p)
    \/ \E p \in Producers : EmitSchedule(p)
    \/ AsyncGet(Worker)
    \/ LoopStep

QueueLiveSpec ==
    /\ QueueStart
    /\ [][QueueLiveNext]_vars
    /\ WF_vars(LoopStep)
    /\ WF_vars(AsyncGet(Worker))
    /\ \A p \in Producers : WF_vars(EmitSchedule(p))

(***************************************************************************)
(* Properties of AsyncQueueHandler                                         *)
(***************************************************************************)
Range(f) == {f[i] : i \in DOMAIN f}

\* C6: in every state the items returned so far by async_get are the first
\* of the items handed over by emit, in the order emit scheduled them.
C6_ReturnedIsPrefixOfEmitted == IsPrefix(returned, emitted)

C6_Witness ==
    /\ loopState = "running"
    /\ Len(returned) = MaxItems
    /\ returned = emitted
    /\ returned # <<1, 2, 3>>

\* C7: a suspended async_get goes on only when a put of an item handed over
\* by emit has woken it, and completes only by returning the first item of
\* the queue; and with the loop open and running and the worker calling
\* async_get again and again, every item handed over by emit is eventually
\* returned, and a suspended async_get eventually completes once an item not
\* yet returned has been handed over.
C7_SuspendedUntilSupplied ==
    /\ [][\A c \in Consumers :
            /\ (cpc[c] = "waiting" /\ cpc'[c] # "waiting") =>
                    /\ cpc'[c] = "woken"
                    /\ queue' # <<>>
                    /\ queue' = Append(queue, queue'[Len(queue')])
                    /\ queue'[Len(queue')] \in Range(emitted)
            /\ (cpc[c] = "woken" /\ cpc'[c] = "idle") =>
                    /\ queue # <<>>
                    /\ returned' = Append(returned, Head(queue))]_vars
    /\ \A i \in 1..MaxItems :
            (i \in Range(emitted)) ~> (i \in Range(returned))
    /\ (cpc[Worker] # "idle" /\ Len(emitted) > Len(returned))
            ~> (cpc[Worker] = "idle")

C7_Witness ==
    /\ cpc[Worker] = "woken"
    /\ Len(emitted) = MaxItems
    /\ Len(returned) = MaxItems - 1
    /\ queue = <<emitted[MaxItems]>>

\* C8: an emit called when the loop is closed returns at once: the record
\* is not formatted, nothing is scheduled or enqueued, nothing is raised and
\* the queue is as before.
C8_EmitOnClosedLoopIsNoOp ==
    [][(loopState = "closed" /\ nextItem' # nextItem) =>
            /\ emitlog' = Append(emitlog, Outcome(nextItem, FALSE, "returned"))
            /\ ppc' = ppc
            /\ ready' = ready
            /\ queue' = queue
            /\ emitted' = emitted]_vars

C8_Witness ==
    /\ loopState = "closed"
    /\ queue # <<>>
    /\ \E i \in DOMAIN emitlog :
            emitlog[i] = Outcome(MaxItems, FALSE, "returned")

\* C19: when the loop is closed while a producer is inside emit (after the
\* check of the loop, before the put is scheduled), the record is dropped
\* and no error reaches the caller: every emit call returns.
C19_TornDownIsSilent ==
    \A i \in DOMAIN emitlog : emitlog[i].outcome = "returned"

(***************************************************************************)
(* add_logging_level and the methods it injects.                           *)
(***************************************************************************)
\* The arguments add_logging_level is called with.
NameInputs == {"NOTICE", "notice", "Verbose"}
ValueInputs == {NOTICE, WARNING}
Thresholds == {NOTSET, INFO, NOTICE, 26, WARNING}

\* str.upper and str.lower on the names in use.
upper(n) ==
    CASE n \in {"NOTICE", "notice"} -> "NOTICE"
      [] n \in {"Verbose", "VERBOSE", "verbose"} -> "VERBOSE"
      [] OTHER -> n

lower(n) ==
    CASE n \in {"NOTICE", "notice"} -> "notice"
      [] n \in {"Verbose", "VERBOSE", "verbose"} -> "verbose"
      [] OTHER -> n

MethodNames == {lower(upper(n)) : n \in NameInputs}

\* Logger.isEnabledFor(level) of a logger whose effective level is T (no
\* logging.disable in force).
isEnabledFor(level, T) == level >= T

\* The outcome of a call: the level of the record made, or no record.
Logged(method, T, level) ==
    [path |-> "", method |-> method, threshold |-> T, outcome |-> "record",
     level |-> level]
Nothing(method, T) ==
    [path |-> "", method |-> method, threshold |-> T, outcome |-> "nothing",
     level |-> 0]
AttributeError(method, T) ==
    [path |-> "", method |-> method, threshold |-> T,
     outcome |-> "AttributeError", level |-> 0]

\* Logger.log(level, ...) and Logger._log: a record, if the level is enabled.
Logger_log(method, level, T) ==
    IF isEnabledFor(level, T) THEN Logged(method, T, level)
    ELSE Nothing(method, T)

\* _for_logging_module: logging.log(level_value, ...) on the root logger.
for_logging_module(method, level_value, T) ==
    Logger_log(method, level_value, T)

\* A variant of the Logger method that logs only above its level.
for_logger_class_Above(method, level_value, T) ==
    IF level_value > T THEN Logged(method, T, level_value)
    ELSE Nothing(method, T)

\* _for_logger_class
for_logger_class(method, level_value, T) ==
    IF isEnabledFor(level_value, T) THEN Logged(method, T, level_value)
    ELSE Nothing(method, T)

\* _for_logger_adapter: LoggerAdapter.log(level_value, ...), which checks the
\* level and hands over to Logger.log.
for_logger_adapter(method, level_value, T) ==
    IF isEnabledFor(level_value, T) THEN Logger_log(method, level_value, T)
    ELSE Nothing(method, T)

\* logging.addLevelName(level_value, level_name)
addLevelName_levelToName(l2n, level_value, level_name) ==
    (level_value :> level_name) @@ l2n
addLevelName_nameToLevel(n2l, level_value, level_name) ==
    (level_name :> level_value) @@ n2l

\* A variant that keeps an attribute that is already there.
setattr_IfAbsent(attrs, name, value) == attrs @@ (name :> value)

\* setattr(owner, name, value)
setattr(attrs, name, value) == (name :> value) @@ attrs

\* The body of add_logging_level: what it does to the registry.
add_logging_level(name_arg, level_value) ==
    LET level_name == upper(name_arg)
        method_name == lower(level_name)
    IN  /\ levelToName'
              = addLevelName_levelToName(levelToName, level_value, level_name)
        /\ nameToLevel'
              = addLevelName_nameToLevel(nameToLevel, level_value, level_name)
        /\ moduleAttr'
              = setattr(setattr(moduleAttr, level_name, Const(level_value)),
                        method_name, Method(level_value))
        /\ loggerAttr' = setattr(loggerAttr, method_name, Method(level_value))
        /\ adapterAttr' = setattr(adapterAttr, method_name, Method(level_value))
        /\ lastAdded' = <<name_arg, level_value>>

AddLoggingLevel(name_arg, level_value) ==
    /\ add_logging_level(name_arg, level_value)
    /\ lastCall' = NoCall
    /\ UNCHANGED <<threshold, fmtVars, embedVars, queueVars, restVars>>

\* Logger.setLevel on the logger the calls go through.
SetLevel(T) ==
    /\ threshold # T
    /\ threshold' = T
    /\ UNCHANGED <<levelToName, nameToLevel, moduleAttr, loggerAttr,
                   adapterAttr, lastAdded, lastCall>>
    /\ UNCHANGED <<fmtVars, embedVars, queueVars, restVars>>

Via(path, out) == [out EXCEPT !.path = path]

\* logging.<method>(...)
CallModule(m) ==
    /\ lastCall' = Via("module",
            IF m \in DOMAIN moduleAttr /\ moduleAttr[m].kind = "method"
            THEN for_logging_module(m, moduleAttr[m].level, threshold)
            ELSE AttributeError(m, threshold))
    /\ UNCHANGED <<levelToName, nameToLevel, moduleAttr, loggerAttr,
                   adapterAttr, threshold, lastAdded>>
    /\ UNCHANGED <<fmtVars, embedVars, queueVars, restVars>>

\* logger.<method>(...)
CallLogger(m) ==
    /\ lastCall' = Via("logger",
            IF m \in DOMAIN loggerAttr
            THEN for_logger_class(m, loggerAttr[m].level, threshold)
            ELSE AttributeError(m, threshold))
    /\ UNCHANGED <<levelToName, nameToLevel, moduleAttr, loggerAttr,
                   adapterAttr, threshold, lastAdded>>
    /\ UNCHANGED <<fmtVars, embedVars, queueVars, restVars>>

\* adapter.<method>(...)
CallAdapter(m) ==
    /\ lastCall' = Via("adapter",
            IF m \in DOMAIN adapterAttr
            THEN for_logger_adapter(m, adapterAttr[m].level, threshold)
            ELSE AttributeError(m, threshold))
    /\ UNCHANGED <<levelToName, nameToLevel, moduleAttr, loggerAttr,
                   adapterAttr, threshold, lastAdded>>
    /\ UNCHANGED <<fmtVars, embedVars, queueVars, restVars>>

LevelStart ==
    LevelInit /\ FormatParked /\ EmbedParked /\ QueueInit /\ RestParked

LevelNext ==
    \/ \E n \in NameInputs, v \in ValueInputs : AddLoggingLevel(n, v)
    \/ \E T \in Thresholds : SetLevel(T)
    \/ \E m \in MethodNames : CallModule(m)
    \/ \E m \in MethodNames : CallLogger(m)
    \/ \E m \in MethodNames : CallAdapter(m)

LevelSpec == LevelStart /\ [][LevelNext]_vars

(***************************************************************************)
(* Properties of add_logging_level                                         *)
(***************************************************************************)
\* C1: after add_logging_level("NOTICE", 25), 25 resolves to the name
\* "NOTICE", the logging module, Logger and LoggerAdapter each have a method
\* notice, and a call of notice on any of the three makes a record, at level
\* 25, if and only if the threshold of the logger is at most 25.
C1_NoticeRegistered ==
    lastAdded = <<"NOTICE", 25>> =>
        /\ 25 \in DOMAIN levelToName /\ levelToName[25] = "NOTICE"
        /\ \A attrs \in {moduleAttr, loggerAttr, adapterAttr} :
                "notice" \in DOMAIN attrs /\ attrs["notice"].kind = "method"
        /\ (lastCall.path \in {"module", "logger", "adapter"}
                /\ lastCall.method = "notice") =>
                /\ lastCall.outcome
                        = IF lastCall.threshold <= 25 THEN "record" ELSE "nothing"
                /\ lastCall.outcome = "record" => lastCall.level = 25

C1_Witness ==
    /\ lastAdded = <<"NOTICE", 25>>
    /\ lastCall.path = "logger"
    /\ lastCall.method = "notice"
    /\ lastCall.threshold = 25
    /\ lastCall.outcome = "record"

\* C16: add_logging_level can always be called, whatever names and values
\* are registered already, and the last registration wins: after a call with
\* a name and a value, the value resolves to the upper-case name, the module
\* constant of that name holds the value, and the lower-case method of the
\* module, of Logger and of LoggerAdapter logs at the value.
C16_LastRegistrationWins ==
    /\ \A n \in NameInputs, v \in ValueInputs : ENABLED AddLoggingLevel(n, v)
    /\ lastAdded # <<>> =>
        LET level_name == upper(lastAdded[1])
            method_name == lower(level_name)
            level_value == lastAdded[2]
        IN  /\ level_value \in DOMAIN levelToName
            /\ levelToName[level_value] = level_name
            /\ level_name \in DOMAIN moduleAttr
            /\ moduleAttr[level_name] = Const(level_value)
            /\ \A attrs \in {moduleAttr, loggerAttr, adapterAttr} :
                    /\ method_name \in DOMAIN attrs
                    /\ attrs[method_name] = Method(level_value)
            /\ (lastCall.path # "none" /\ lastCall.method = method_name) =>
                    /\ lastCall.outcome \in {"record", "nothing"}
                    /\ (lastCall.outcome = "record")
                            = (lastCall.threshold <= level_value)
                    /\ lastCall.outcome = "record"
                            => lastCall.level = level_value

\* NOTICE was registered at 25 and is registered again at 30, the value of
\* WARNING: name and value were both in use.
C16_Witness ==
    /\ lastAdded = <<"notice", WARNING>>
    /\ 25 \in DOMAIN levelToName /\ levelToName[25] = "NOTICE"
    /\ levelToName[WARNING] = "NOTICE"
    /\ moduleAttr["NOTICE"] = Const(WARNING)
    /\ lastCall.path = "adapter"
    /\ lastCall.method = "notice"
    /\ lastCall.outcome = "record"
    /\ lastCall.level = WARNING

\* C22: a format call of either formatter, returning or raising, leaves
\* record.msg and record.exc_text as they were before the call; so after
\* any sequence of calls on the same record both are what they were before
\* the first one.
C22_RecordLeftAsItWas ==
    [][record'.msg = record.msg /\ record'.exc_text = record.exc_text]_vars

(***************************************************************************)
(* SupportSpec: the queries (stream_supports_colour of either module and   *)
(* is_docker) are called, in any order, in an environment that stays as it *)
(* is.                                                                     *)
(***************************************************************************)
SupportInit ==
    /\ senv \in Environments
    /\ supports = NoAnswer
    /\ docker = NoAnswer
    /\ jl_supports = NoAnswer
    /\ FormatParked /\ EmbedParked /\ QueueInit /\ LevelInit /\ SetupParked
    /\ ConcParked

StreamSupportsColour ==
    /\ ~supports.done
    /\ supports' = stream_supports_colour(senv)
    /\ UNCHANGED <<senv, docker, jl_supports, fmtVars, embedVars, queueVars,
                   levelVars, setupVars, concVars>>

IsDocker ==
    /\ ~docker.done
    /\ docker' = is_docker(senv)
    /\ UNCHANGED <<senv, supports, jl_supports, fmtVars, embedVars, queueVars,
                   levelVars, setupVars, concVars>>

JtfoLoggingStreamSupportsColour ==
    /\ ~jl_supports.done
    /\ jl_supports' = jtfo_logging_stream_supports_colour(senv)
    /\ UNCHANGED <<senv, supports, docker, fmtVars, embedVars, queueVars,
                   levelVars, setupVars, concVars>>

SupportNext ==
    StreamSupportsColour \/ IsDocker \/ JtfoLoggingStreamSupportsColour

SupportSpec == SupportInit /\ [][SupportNext]_vars

(***************************************************************************)
(* Properties of the colour capability query                               *)
(***************************************************************************)
\* The facts the decision is about.
IsTTY == senv.stream = "tty"
IsWin32 == senv.platform = "win32"
HasIdeMarker == senv.PYCHARM_HOSTED \/ senv.TERM_PROGRAM = "vscode"
HasTerminalMarker == senv.ANSICON \/ senv.WT_SESSION
InDocker == senv.dockerenv \/ senv.cgroup = "docker"
Answered == supports.done /\ supports.raised = ""

\* C11 as stated: whenever stream_supports_colour returns, on a platform
\* other than win32 it returns true if the stream is a TTY or the process
\* runs in Docker; on win32 it returns true only if the stream is a TTY and
\* ANSICON or WT_SESSION is set, and false for a non-TTY stream without
\* markers - for every combination of the five facts, the IDE marker included.
C11_DecisionOrderAsStated ==
    Answered =>
        /\ (~IsWin32 /\ (IsTTY \/ InDocker)) => supports.value
        /\ (IsWin32 /\ supports.value) => (IsTTY /\ HasTerminalMarker)
        /\ (IsWin32 /\ ~IsTTY /\ ~HasIdeMarker /\ ~HasTerminalMarker)
                => ~supports.value

\* C11 as amended: whenever stream_supports_colour returns, with an IDE
\* marker present it returns whether the stream is a TTY, on every platform;
\* without one, it returns on a platform other than win32 whether the
\* stream is a TTY or the process runs in Docker, and on win32 whether the
\* stream is a TTY and ANSICON or WT_SESSION is set.
C11_DecisionOrderAmended ==
    Answered =>
        supports.value =
            IF HasIdeMarker THEN IsTTY
            ELSE IF ~IsWin32 THEN IsTTY \/ InDocker
            ELSE IsTTY /\ HasTerminalMarker

C11_Witness ==
    /\ Answered
    /\ ~HasIdeMarker /\ ~IsWin32 /\ ~IsTTY
    /\ ~senv.dockerenv /\ senv.cgroup = "docker"
    /\ supports.value

\* C12: stream_supports_colour and is_docker never raise: for every stream,
\* environment and state of the filesystem each call returns a boolean.
C12_NeverRaises ==
    /\ supports.done => (supports.raised = "" /\ supports.value \in BOOLEAN)
    /\ docker.done => (docker.raised = "" /\ docker.value \in BOOLEAN)

\* C21: the stream_supports_colour of jtfo_logging and that of jtfo.logging
\* give the same result whenever the stream is a TTY, and differ only for a
\* stream that is no TTY, in two cases: with an IDE marker jtfo_logging
\* returns true and jtfo.logging returns false; on a platform other than
\* win32, inside Docker and without an IDE marker, jtfo.logging returns true
\* and jtfo_logging returns false.
C21_LineagesDifferOnlyOffTTY ==
    (supports.done /\ jl_supports.done) =>
        /\ IsTTY => supports = jl_supports
        /\ supports # jl_supports =>
              /\ ~IsTTY
              /\ \/ /\ HasIdeMarker
                    /\ jl_supports = Returns(TRUE)
                    /\ supports = Returns(FALSE)
                 \/ /\ ~HasIdeMarker /\ ~IsWin32 /\ InDocker
                    /\ supports = Returns(TRUE)
                    /\ jl_supports = Returns(FALSE)
        /\ (~IsTTY /\ HasIdeMarker) => supports # jl_supports
        /\ (~IsTTY /\ ~HasIdeMarker /\ ~IsWin32 /\ InDocker)
                => supports # jl_supports

(***************************************************************************)
(* setup_logging, the handlers it adds to the root logger and the hook it  *)
(* installs.  A record logged on the root logger goes to the handlers in   *)
(* the order they were added (Logger.callHandlers); each handler whose     *)
(* level admits it formats it and writes the text and a line feed to its   *)
(* sink; a handler whose formatter raises writes nothing                   *)
(* (Handler.handleError).                                                  *)
(***************************************************************************)
\* Bound of the texts of the records logged after setup_logging.
MaxSetupText == 2

SetupLevels == {DEBUG, INFO, ERROR}

SetupRecords ==
    {[levelno |-> l, msg |-> m, exc_info |-> e, exc_text |-> None,
      raw_msg |-> r] :
        l \in SetupLevels, m \in Msgs,
        <<e, r>> \in {p \in (Printed(MaxSetupText) \cup {None})
                                \X (Strs(MaxSetupText) \cup {Absent}) :
                        TextLen(p[1]) + TextLen(p[2]) <= MaxSetupText + 1}}

\* The arguments of setup_logging: file_path is None, '', a path that can be
\* opened or one that can not.
FilePaths == {"<None>", "", "app.log", "/no/such/dir/app.log"}
FileLogLevels == {INFO, ERROR}

\* if file_path:
path_given(file_path) == file_path # "<None>" /\ file_path # ""

\* logging.FileHandler(file_path) raises for a path that can not be opened.
FileHandlerRaises(file_path) == file_path = "/no/such/dir/app.log"

Handler(sink, formatter, level) ==
    [sink |-> sink, formatter |-> formatter, level |-> level]

\* get_handler: the stream handler with its formatter, unless the query of
\* the stream raises.
get_handler(use_colour_if_supported, e) ==
    LET sup == IF use_colour_if_supported THEN stream_supports_colour(e)
               ELSE Returns(FALSE)
    IN  [raised |-> sup.raised,
         handler |-> Handler("stream",
                             IF sup.value THEN "colour" ELSE "plain", NOTSET)]

\* file_handler.setLevel(file_log_level); setFormatter(CustomFormatter())
file_handler(file_log_level) == Handler("file", "plain", file_log_level)

SetupLogging(file_path, file_log_level, use_colour_if_supported, e) ==
    /\ setup = "none"
    /\ add_logging_level("NOTICE", NOTICE)
    /\ threshold' = INFO
    /\ LET h == get_handler(use_colour_if_supported, e)
       IN  IF h.raised # ""
           THEN /\ setup' = "raised"
                /\ UNCHANGED <<handlers, excepthook>>
           ELSE IF path_given(file_path) /\ FileHandlerRaises(file_path)
           THEN /\ setup' = "raised"
                /\ handlers' = Append(handlers, h.handler)
                /\ UNCHANGED excepthook
           ELSE /\ setup' = "returned"
                /\ handlers'
                     = IF path_given(file_path)
                       THEN handlers
                            \o <<h.handler, file_handler(file_log_level)>>
                       ELSE Append(handlers, h.handler)
                /\ excepthook' = "jtfo"
    /\ UNCHANGED <<lastCall, hpos, logged, written, lastHook>>
    /\ UNCHANGED <<fmtVars, embedVars, queueVars, supportVars, concVars>>

\* The root logger takes a record: Logger.handle hands it to callHandlers.
Take(r) ==
    /\ record' = r
    /\ logged' = r
    /\ written' = NoneWritten
    /\ hpos' = 1

\* A record is logged on the root logger.
Log(r) ==
    /\ setup # "none"
    /\ hpos = 0
    /\ isEnabledFor(r.levelno, threshold)
    /\ Take(r)
    /\ UNCHANGED <<plain, colour, setup, handlers, excepthook, lastHook>>
    /\ UNCHANGED <<embedVars, queueVars, levelVars, supportVars, concVars>>

\* callHandlers: the next handler handles the record in flight.
Handle ==
    /\ hpos \in 1..Len(handlers)
    /\ LET h == handlers[hpos]
           res == IF h.formatter = "colour"
                  THEN CustomColourFormatter_format(record)
                  ELSE CustomFormatter_format(record)
       IN  IF record.levelno >= h.level
           THEN /\ record' = res.record
                /\ written' = IF res.raised = ""
                              THEN [written EXCEPT ![h.sink] = res.ret \o <<LF>>]
                              ELSE written
           ELSE UNCHANGED <<record, written>>
    /\ hpos' = hpos + 1
    /\ UNCHANGED <<plain, colour, setup, handlers, excepthook, logged, lastHook>>
    /\ UNCHANGED <<embedVars, queueVars, levelVars, supportVars, concVars>>

\* callHandlers is through: the logging call (and the hook that made it)
\* returns, and no record is in flight.
Return ==
    /\ hpos = Len(handlers) + 1
    /\ hpos' = 0
    /\ record' = NoRecord
    /\ logged' = NoRecord
    /\ written' = NoneWritten
    /\ lastHook' = NoHook
    /\ UNCHANGED <<plain, colour, setup, handlers, excepthook>>
    /\ UNCHANGED <<embedVars, queueVars, levelVars, supportVars, concVars>>

\* The unhandled exceptions: a KeyboardInterrupt, an instance of a subclass
\* of it, and another exception; each with what is printed for it.
ExcTypes == {"KeyboardInterrupt", "SubclassOfKeyboardInterrupt", "ValueError"}
Exceptions == [type : ExcTypes, trace : Printed(1)]

\* A variant that knows the class itself only.
is_keyboard_interrupt_ExactType(exc_type) == exc_type = "KeyboardInterrupt"

\* issubclass(exc_type, KeyboardInterrupt)
is_keyboard_interrupt(exc_type) ==
    exc_type \in {"KeyboardInterrupt", "SubclassOfKeyboardInterrupt"}

\* The two messages of the hook.
InterruptMsg == <<"KeyboardInterrupt received.">>
UnhandledMsg == <<"App has encountered an unhandled exception!">>

\* What root_logger.critical is called with by the hook.
HookRecord(exc) ==
    IF is_keyboard_interrupt(exc.type)
    THEN [levelno |-> CRITICAL, msg |-> InterruptMsg, exc_info |-> NoExc]
    ELSE [levelno |-> CRITICAL, msg |-> UnhandledMsg, exc_info |-> exc]

\* sys.excepthook(exc_type, exc_value, exc_traceback), with the hook of
\* setup_logging installed.
UncaughtException(exc) ==
    /\ excepthook = "jtfo"
    /\ hpos = 0
    /\ LET call == HookRecord(exc)
       IN  IF isEnabledFor(call.levelno, threshold)
           THEN /\ lastHook' = [called |-> TRUE, exc |-> exc, made |-> <<call>>]
                /\ Take([levelno |-> call.levelno, msg |-> call.msg,
                         exc_info |-> call.exc_info.trace, exc_text |-> None,
                         raw_msg |-> Absent])
           ELSE /\ lastHook' = [called |-> TRUE, exc |-> exc, made |-> <<>>]
                /\ hpos' = Len(handlers) + 1
                /\ UNCHANGED <<record, logged, written>>
    /\ UNCHANGED <<plain, colour, setup, handlers, excepthook>>
    /\ UNCHANGED <<embedVars, queueVars, levelVars, supportVars, concVars>>

\* setup_logging is called, once, with any arguments in any environment.
CallSetupLogging ==
    /\ setup = "none"
    /\ \E file_path \in FilePaths, file_log_level \in FileLogLevels,
          use_colour_if_supported \in BOOLEAN, e \in Environments :
            SetupLogging(file_path, file_log_level, use_colour_if_supported, e)

SetupInit ==
    /\ SetupParked /\ SupportParked /\ ConcParked
    /\ FormatParked /\ EmbedParked /\ QueueInit /\ LevelInit

SetupNext ==
    \/ CallSetupLogging
    \/ \E r \in SetupRecords : Log(r)
    \/ Handle
    \/ Return
    \/ \E exc \in Exceptions : UncaughtException(exc)

SetupSpec == SetupInit /\ [][SetupNext]_vars

(***************************************************************************)
(* Properties of setup_logging                                             *)
(***************************************************************************)
\* The plain text of a record: the header and the message, the raw block,
\* and the exception block on a line of its own.
PlainText(r) ==
    LET block == IF r.raw_msg = Absent THEN <<>>
                 ELSE <<LF>>
                      \o (IF r.raw_msg = <<>> THEN <<SP, SP>>
                          ELSE EveryLinePrefixed(r.raw_msg))
                      \o <<LF>>
        body == Header \o str(r.msg) \o block
    IN  IF r.exc_info = None THEN body
        ELSE body \o (IF body[Len(body)] = LF THEN <<>> ELSE <<LF>>)
             \o EveryLinePrefixed(TraceOf(r)) \o <<LF>>

HasAnsi(s) == \E i \in DOMAIN s : IsAnsi(s[i])

\* C13: the file handler has the plain formatter, and what the file sink is
\* given for a record is without any escape sequence - whatever the stream
\* handler before it did with the record; for a msg that is no list it is
\* the plain text of the record as it was logged, and a line feed.
C13_FileSinkIsPlain ==
    /\ \A i \in DOMAIN handlers :
            handlers[i].sink = "file" => handlers[i].formatter = "plain"
    /\ written.file # NoText =>
            /\ ~HasAnsi(written.file)
            /\ ~IsList(logged.msg) =>
                    written.file = PlainText(logged) \o <<LF>>

\* The colour handler came first and wrote a record with exception info and
\* raw_msg in colour; the file was given the record after it.
C13_Witness ==
    /\ Len(handlers) = 2 /\ hpos = 3
    /\ handlers[1].formatter = "colour"
    /\ logged.exc_info # None /\ logged.raw_msg = <<"a">>
    /\ written.stream # NoText /\ HasAnsi(written.stream)
    /\ written.file # NoText

\* C14: every call of the hook makes exactly one record, at CRITICAL: for an
\* exception whose type is KeyboardInterrupt or a subclass of it, with the
\* message "KeyboardInterrupt received." and no exception info; for every
\* other exception, with the exception (type, value, traceback) attached.
C14_HookLogsOneCritical ==
    lastHook.called =>
        /\ Len(lastHook.made) = 1
        /\ lastHook.made[1].levelno = 50
        /\ IF lastHook.exc.type
                \in {"KeyboardInterrupt", "SubclassOfKeyboardInterrupt"}
           THEN /\ lastHook.made[1].msg = <<"KeyboardInterrupt received.">>
                /\ lastHook.made[1].exc_info = NoExc
           ELSE lastHook.made[1].exc_info = lastHook.exc

\* The hook was called for an instance of a subclass of KeyboardInterrupt,
\* and the record it made went through the handlers.
C14_Witness ==
    /\ lastHook.called
    /\ lastHook.exc.type = "SubclassOfKeyboardInterrupt"
    /\ Len(lastHook.made) = 1
    /\ lastHook.made[1].msg = <<"KeyboardInterrupt received.">>
    /\ hpos = Len(handlers) + 1
    /\ written.stream # NoText

(***************************************************************************)
(* ConcSpec: threads call add_logging_level at the same time.  A call is   *)
(* stepped out: logging._acquireLock(), the five writes of the try block   *)
(* (addLevelName takes the reentrant lock itself and writes both maps in   *)
(* one go), logging._releaseLock() in the finally block.  An exception     *)
(* raised inside the try block (MemoryError, KeyboardInterrupt) leads to   *)
(* the finally block and out of the call.                                  *)
(***************************************************************************)
\* The writes of the try block, in program order.
Mutations == <<"addLevelName", "const", "module", "logger", "adapter">>
InTry == {Mutations[i] : i \in DOMAIN Mutations}

\* A variant that releases the lock before the adapter method is set.
next_pc_ReleaseEarly(pc) ==
    CASE pc = "acquire" -> "addLevelName"
      [] pc = "addLevelName" -> "const"
      [] pc = "const" -> "module"
      [] pc = "module" -> "logger"
      [] pc = "logger" -> "release"
      [] pc = "release" -> "adapter"
      [] pc = "adapter" -> "done"

\* The statement after each statement of add_logging_level.
next_pc(pc) ==
    CASE pc = "acquire" -> "addLevelName"
      [] pc = "addLevelName" -> "const"
      [] pc = "const" -> "module"
      [] pc = "module" -> "logger"
      [] pc = "logger" -> "adapter"
      [] pc = "adapter" -> "release"
      [] pc = "release" -> "done"

\* The registry: the state add_logging_level writes.
registry ==
    [levelToName |-> levelToName, nameToLevel |-> nameToLevel,
     moduleAttr |-> moduleAttr, loggerAttr |-> loggerAttr,
     adapterAttr |-> adapterAttr]

\* One write of the try block.
Mutated(reg, step, name_arg, level_value) ==
    LET level_name == upper(name_arg)
        method_name == lower(level_name)
    IN  CASE step = "addLevelName" ->
                [reg EXCEPT
                    !.levelToName
                        = addLevelName_levelToName(@, level_value, level_name),
                    !.nameToLevel
                        = addLevelName_nameToLevel(@, level_value, level_name)]
          [] step = "const" ->
                [reg EXCEPT
                    !.moduleAttr = setattr(@, level_name, Const(level_value))]
          [] step = "module" ->
                [reg EXCEPT
                    !.moduleAttr = setattr(@, method_name, Method(level_value))]
          [] step = "logger" ->
                [reg EXCEPT
                    !.loggerAttr = setattr(@, method_name, Method(level_value))]
          [] step = "adapter" ->
                [reg EXCEPT
                    !.adapterAttr = setattr(@, method_name, Method(level_value))]

\* threading.RLock: acquire by a thread that may, and release.
Acquired(l, t) == [owner |-> t, count |-> l.count + 1]
Released(l, t) ==
    IF l.owner # t THEN l
    ELSE IF l.count = 1 THEN [owner |-> "", count |-> 0]
    ELSE [l EXCEPT !.count = @ - 1]

\* A thread calls add_logging_level(name_arg, level_value).
Call(t, name_arg, level_value) ==
    /\ tpc[t] = "idle"
    /\ tpc' = [tpc EXCEPT ![t] = "acquire"]
    /\ targs' = [targs EXCEPT ![t] = <<name_arg, level_value>>]
    /\ UNCHANGED <<lock, tsteps, levelVars>>
    /\ UNCHANGED <<fmtVars, embedVars, queueVars, supportVars, setupVars>>

\* logging._acquireLock(): the thread waits while another thread has the lock.
Acquire(t) ==
    /\ tpc[t] = "acquire"
    /\ lock.owner \in {"", t}
    /\ lock' = Acquired(lock, t)
    /\ tpc' = [tpc EXCEPT ![t] = next_pc("acquire")]
    /\ UNCHANGED <<targs, tsteps, levelVars>>
    /\ UNCHANGED <<fmtVars, embedVars, queueVars, supportVars, setupVars>>

\* The next write of the try block.
Mutate(t) ==
    /\ tpc[t] \in InTry
    /\ LET reg == Mutated(registry, tpc[t], targs[t][1], targs[t][2])
       IN  /\ levelToName' = reg.levelToName
           /\ nameToLevel' = reg.nameToLevel
           /\ moduleAttr' = reg.moduleAttr
           /\ loggerAttr' = reg.loggerAttr
           /\ adapterAttr' = reg.adapterAttr
    /\ tsteps' = [tsteps EXCEPT ![t] = @ + 1]
    /\ tpc' = [tpc EXCEPT ![t] = next_pc(tpc[t])]
    /\ UNCHANGED <<lock, targs, threshold, lastAdded, lastCall>>
    /\ UNCHANGED <<fmtVars, embedVars, queueVars, supportVars, setupVars>>

\* An exception is raised inside the try block: on to the finally block.
Raise(t) ==
    /\ tpc[t] \in InTry
    /\ tpc' = [tpc EXCEPT ![t] = "finally"]
    /\ UNCHANGED <<lock, targs, tsteps, levelVars>>
    /\ UNCHANGED <<fmtVars, embedVars, queueVars, supportVars, setupVars>>

\* logging._releaseLock() in the finally block: after the try block, or
\* with an exception on its way out of the call.
Release(t) ==
    /\ tpc[t] \in {"release", "finally"}
    /\ lock' = Released(lock, t)
    /\ tpc' = [tpc EXCEPT ![t] = IF tpc[t] = "finally" THEN "done"
                                 ELSE next_pc("release")]
    /\ UNCHANGED <<targs, tsteps, levelVars>>
    /\ UNCHANGED <<fmtVars, embedVars, queueVars, supportVars, setupVars>>

ConcInit ==
    /\ ConcParked /\ SupportParked /\ SetupParked
    /\ FormatParked /\ EmbedParked /\ QueueInit /\ LevelInit

ConcNext ==
    \/ \E t \in Threads, n \in NameInputs, v \in ValueInputs : Call(t, n, v)
    \/ \E t \in Threads : Acquire(t)
    \/ \E t \in Threads : Mutate(t)
    \/ \E t \in Threads : Raise(t)
    \/ \E t \in Threads : Release(t)

ConcSpec == ConcInit /\ [][ConcNext]_vars

(***************************************************************************)
(* Properties of concurrent calls of add_logging_level                     *)
(***************************************************************************)
\* The registry after one call that made its first k writes.
RECURSIVE AfterCall(_, _, _)
AfterCall(reg, args, k) ==
    IF k = 0 THEN reg
    ELSE Mutated(AfterCall(reg, args, k - 1), Mutations[k], args[1], args[2])

\* The registry after the calls of the threads of a sequence, one call
\* after the other, each as far as it got.
RECURSIVE AfterCalls(_, _)
AfterCalls(reg, order) ==
    IF order = <<>> THEN reg
    ELSE AfterCalls(AfterCall(reg, targs[Head(order)], tsteps[Head(order)]),
                    Tail(order))

\* Every order of the threads of a set.
Orders(S) ==
    {o \in [1..Cardinality(S) -> S] :
        \A i, j \in 1..Cardinality(S) : i # j => o[i] # o[j]}

Finished == {t \in Threads : tpc[t] = "done"}

\* C15: every write to the registry is made by the thread that has the lock
\* and keeps it; a thread that is not inside the call, or has left it,
\* normally or by an exception, does not have the lock; and whenever no
\* call is under way the registry is what the finished calls give when made
\* one after the other in some order.
C15_SafeUnderConcurrentCalls ==
    /\ [][registry' # registry =>
            \E t \in Threads :
                /\ tpc'[t] # tpc[t]
                /\ lock.owner = t /\ lock'.owner = t]_vars
    /\ [](\A t \in Threads :
            tpc[t] \in {"idle", "acquire", "done"} => lock.owner # t)
    /\ []((\A t \in Threads : tpc[t] \in {"idle", "done"}) =>
            /\ lock = [owner |-> "", count |-> 0]
            /\ \E o \in Orders(Finished) :
                    registry = AfterCalls(BuiltinRegistry, o))

\* Both threads called at the same time with the same name and different
\* values; the call of t1 came last.
C15_Witness ==
    /\ \A t \in Threads : tpc[t] = "done" /\ tsteps[t] = Len(Mutations)
    /\ targs["t1"] = <<"NOTICE", NOTICE>>
    /\ targs["t2"] = <<"notice", WARNING>>
    /\ levelToName[WARNING] = "NOTICE"
    /\ moduleAttr["NOTICE"] = Const(NOTICE)
    /\ adapterAttr["notice"] = Method(NOTICE)

====
